---- MODULE Spec2Model ----
(***************************************************************************)
(* Model of tcprust: the packet loop of src/main.rs (connection table,     *)
(* dispatch to accept / on_packet) and the TCP connection engine of        *)
(* src/tcp.rs (Connection::accept, Connection::on_packet and the wrapping  *)
(* interval test is_between_wrapped).                                      *)
(*                                                                         *)
(* Sequence numbers keep a fixed width and wrap: the u32 of the source is  *)
(* the ring 0..Mod-1.  TLC's integers are 32 bits wide, so the ring is     *)
(* scaled down (Mod stands for 2^32); every operation is computed as the   *)
(* source computes it, modulo Mod.                                         *)
(* The unchecked `+` and `-` of tcp.rs trap (panic) in a build with        *)
(* overflow checks and wrap in a build without them; overflow_checks is    *)
(* the build's choice and both builds are explored.                        *)
(***************************************************************************)
EXTENDS Integers, FiniteSets, Sequences, TLC

VARIABLES
    connections,      \* main.rs: HashMap<Quad, Connection>
    origin,           \* history: for each key of the table, Quad::from_headers
                      \* of the frame whose accept created the entry
    buf,              \* main.rs: the frame last read by nic.recv, decoded
    pc,               \* position of the packet loop
    outcome,          \* how the last frame left the loop body
    nic_sent,         \* number of frames handed to nic.send
    nic_out,          \* the frame the current loop body handed to nic.send,
                      \* with the result nic.send returned
    overflow_checks,  \* TRUE: arithmetic overflow panics; FALSE: it wraps
    bw_args,          \* arguments of the last direct call of is_between_wrapped
    bw_result         \* its result

vars == <<connections, origin, buf, pc, outcome, nic_sent, nic_out, overflow_checks, bw_args, bw_result>>

\* ---------------------------------------------------------------- bounds
Mod == 16          \* size of the sequence ring (2^32 in the source)
MaxOff == 3        \* sequence numbers Mod-2 .. Mod-2+MaxOff, across the wrap
MaxWnd == 2        \* advertised windows 0..MaxWnd
MaxDataLen == 2    \* payload lengths 0..MaxDataLen

MaxU32 == Mod - 1
SeqVals == {(Mod - 2 + i) % Mod : i \in 0..MaxOff}
AckVals == {x % Mod : x \in (Mod - 1)..(Mod + 2)}
WndVals == 0..MaxWnd
DataLens == 0..MaxDataLen
LocalAddr == "local"
LocalPort == 80
\* remote peers: two ports of one address, and a second address
Peers == {<<"peerA", 4000>>, <<"peerA", 4001>>, <<"peerB", 4000>>}
BwVals == 0..(Mod - 1)

\* ---------------------------------------------------------------- u32 arithmetic
wrapping_add(a, b) == (a + b) % Mod
wrapping_sub(a, b) == (a + Mod - b) % Mod

\* the value of an unchecked u32 expression whose exact value is r, in a
\* build without overflow checks
Wrap(r) == (r + Mod) % Mod
\* whether an unchecked u32 expression whose exact value is r traps
Traps(checks, r) == checks /\ (r < 0 \/ r > MaxU32)

\* ---------------------------------------------------------------- tcp.rs
\* faulty variant: the upper end of the excluded range is tested with < for <=
is_between_wrapped_lt(start, x, end) ==
    IF start = x THEN FALSE
    ELSE IF start < x
         THEN IF end >= start /\ end < x THEN FALSE ELSE TRUE
         ELSE IF end < start /\ end > x THEN TRUE ELSE FALSE

is_between_wrapped(start, x, end) ==
    IF start = x THEN FALSE
    ELSE IF start < x
         THEN IF end >= start /\ end <= x THEN FALSE ELSE TRUE
         ELSE IF end < start /\ end > x THEN TRUE ELSE FALSE

SendSequenceSpace(una, nxt, wnd, iss) ==
    [una |-> una, nxt |-> nxt, wnd |-> wnd, up |-> FALSE, wl1 |-> 0, wl2 |-> 0, iss |-> iss]

RecvSequenceSpace(nxt, wnd, irs) ==
    [nxt |-> nxt, wnd |-> wnd, up |-> FALSE, irs |-> irs]

DefaultConnection ==
    [state |-> "Listen",
     send |-> SendSequenceSpace(0, 0, 0, 0),
     recv |-> RecvSequenceSpace(0, 0, 0),
     ip_payload_len |-> 0]

\* TcpHeader::header_len of a header without options
TcpHeaderLen == 20

Quad(src, dst) == [src |-> src, dst |-> dst]

from_headers(f) == Quad(<<f.src, f.sport>>, <<f.dst, f.dport>>)

\* accept's transmit buffer, and Ipv4Header::header_len without options
AcceptBufLen == 1500
Ipv4HeaderLen == 20

\* no frame handed to nic.send
NoTx ==
    [kind |-> "none", src |-> LocalAddr, dst |-> LocalAddr, sport |-> 0, dport |-> 0,
     seq |-> 0, ack |-> 0, syn |-> FALSE, ackf |-> FALSE, wnd |-> 0, len |-> 0, io |-> "none"]

\* faulty variant: the acknowledgment number is the peer's sequence number
syn_ack_irs(self, f) ==
    [kind |-> "frame", src |-> f.dst, dst |-> f.src, sport |-> f.dport, dport |-> f.sport,
     seq |-> 0, ack |-> self.recv.irs, syn |-> TRUE, ackf |-> TRUE, wnd |-> 10,
     len |-> AcceptBufLen - (Ipv4HeaderLen + TcpHeaderLen), io |-> "none"]

\* the frame accept hands to nic.send, `self` being the prototype after its
\* recv fields were updated: TcpHeader::new(dst port, src port, 0, 10) with
\* the acknowledgment number and flags set, behind Ipv4Header::new(.., dst
\* addr, src addr); its length is what `unwritten.len()` returns after the
\* two headers were written
syn_ack(self, f) ==
    [kind |-> "frame", src |-> f.dst, dst |-> f.src, sport |-> f.dport, dport |-> f.sport,
     seq |-> 0, ack |-> self.recv.nxt, syn |-> TRUE, ackf |-> TRUE, wnd |-> 10,
     len |-> AcceptBufLen - (Ipv4HeaderLen + TcpHeaderLen), io |-> "none"]

\* faulty variant: send.nxt is taken from the prototype without the + 1
accept_send_same(self, iss) ==
    SendSequenceSpace(self.send.iss, self.send.una, 10, iss)

\* the send space of the Connection accept builds
accept_send(self, iss) ==
    SendSequenceSpace(self.send.iss, Wrap(self.send.una + 1), 10, iss)

\* Connection::accept past the SYN check, on the prototype `self`: the value
\* returned (or a panic), the number of frames handed to nic.send and the
\* frame
accept_syn(self, f, checks) ==
    IF Traps(checks, f.seq + 1) \/ Traps(checks, self.send.una + 1)
    THEN [tag |-> "panic", conn |-> self, sends |-> 0, tx |-> NoTx]
    ELSE LET self1 == [self EXCEPT !.recv = RecvSequenceSpace(Wrap(f.seq + 1), f.wnd, f.seq)]
             iss == 0
             c == [state |-> "SynRcvd",
                   send |-> accept_send(self, iss),
                   recv |-> RecvSequenceSpace(Wrap(f.seq + 1), f.wnd, f.seq),
                   ip_payload_len |-> TcpHeaderLen]
         IN  [tag |-> "Some", conn |-> c, sends |-> 1, tx |-> syn_ack(self1, f)]

\* faulty variant: the SYN check is missing
accept_unchecked(self, f, checks) == accept_syn(self, f, checks)

\* faulty variant: the frame is sent before the SYN check
accept_send_first(self, f, checks) ==
    IF ~f.syn
    THEN [tag |-> "None", conn |-> self, sends |-> 1, tx |-> syn_ack(self, f)]
    ELSE accept_syn(self, f, checks)

\* Connection::accept
accept(self, f, checks) ==
    IF ~f.syn
    THEN [tag |-> "None", conn |-> self, sends |-> 0, tx |-> NoTx]
    ELSE accept_syn(self, f, checks)

\* faulty variant: the upper end is send.nxt, not send.nxt + 1
ack_acceptable_nxt(self, ackn) ==
    is_between_wrapped(self.send.una, ackn, self.send.nxt)

\* on_packet's acceptable-ack check
ack_acceptable(self, ackn) ==
    is_between_wrapped(self.send.una, ackn, wrapping_add(self.send.nxt, 1))

\* faulty variant: the window test is closed at recv.nxt + recv.wnd
inside_window_closed(self, s) ==
    is_between_wrapped(wrapping_sub(self.recv.nxt, 1), s,
                       wrapping_add(wrapping_add(self.recv.nxt, self.recv.wnd), 1))

\* faulty variant: a zero window admits the next expected sequence number
inside_window_zero(self, s) ==
    IF self.recv.wnd = 0
    THEN s = self.recv.nxt
    ELSE is_between_wrapped(wrapping_sub(self.recv.nxt, 1), s,
                            wrapping_add(self.recv.nxt, self.recv.wnd))

\* on_packet's window test of one sequence number (start_inside_window,
\* end_inside_window)
inside_window(self, s) ==
    LET wend == wrapping_add(self.recv.nxt, self.recv.wnd)
    IN  is_between_wrapped(wrapping_sub(self.recv.nxt, 1), s, wend)

\* faulty variant: the acknowledgment number is recorded before the segment is checked
on_packet_eager(self, f, checks) ==
    LET ackn == f.ack
        datalen == f.datalen
        seqn == f.seq
        upd == [self EXCEPT !.send.wl2 = ackn]
    IN  IF ~ack_acceptable(self, ackn)
        THEN [tag |-> "ack_discard", conn |-> upd]
        ELSE IF Traps(checks, seqn + datalen) \/ Traps(checks, seqn + datalen - 1)
        THEN [tag |-> "panic", conn |-> upd]
        ELSE IF ~inside_window(self, seqn) /\ ~inside_window(self, Wrap(seqn + datalen - 1))
        THEN [tag |-> "seq_discard", conn |-> upd]
        ELSE IF self.state = "Estab"
        THEN [tag |-> "panic", conn |-> upd]
        ELSE [tag |-> "processed", conn |-> upd]

\* faulty variant: the SynRcvd arm completes the handshake
on_packet_estab(self, f, checks) ==
    LET ackn == f.ack
        datalen == f.datalen
        seqn == f.seq
    IN  IF ~ack_acceptable(self, ackn)
        THEN [tag |-> "ack_discard", conn |-> self]
        ELSE IF Traps(checks, seqn + datalen) \/ Traps(checks, seqn + datalen - 1)
        THEN [tag |-> "panic", conn |-> self]
        ELSE IF ~inside_window(self, seqn) /\ ~inside_window(self, Wrap(seqn + datalen - 1))
        THEN [tag |-> "seq_discard", conn |-> self]
        ELSE IF self.state = "Estab"
        THEN [tag |-> "panic", conn |-> self]
        ELSE IF self.state = "SynRcvd"
        THEN [tag |-> "processed", conn |-> [self EXCEPT !.state = "Estab", !.send.una = ackn]]
        ELSE [tag |-> "processed", conn |-> self]

\* Connection::on_packet: the return point reached (or a panic) and the
\* Connection it leaves
on_packet(self, f, checks) ==
    LET ackn == f.ack
        datalen == f.datalen
        seqn == f.seq
    IN  IF ~ack_acceptable(self, ackn)
        THEN [tag |-> "ack_discard", conn |-> self]
        ELSE IF Traps(checks, seqn + datalen) \/ Traps(checks, seqn + datalen - 1)
        THEN [tag |-> "panic", conn |-> self]
        ELSE IF ~inside_window(self, seqn) /\ ~inside_window(self, Wrap(seqn + datalen - 1))
        THEN [tag |-> "seq_discard", conn |-> self]
        ELSE IF self.state = "Estab"
        THEN [tag |-> "panic", conn |-> self]
        ELSE [tag |-> "processed", conn |-> self]

\* ---------------------------------------------------------------- main.rs
\* the key the packet loop looks the frame up under
LoopKey(f) == Quad(<<f.src, f.dport>>, <<f.dst, f.dport>>)

\* faulty variant: the entry is taken as vacant whether or not the key is present
entry_vacant(table, k) == "Vacant"

\* HashMap::entry
entry(table, k) == IF k \in DOMAIN table THEN "Occupied" ELSE "Vacant"

\* faulty variant: the insertion drops the other entries
Insert_only(table, k, v) == [q \in {k} |-> v]

\* VacantEntry::insert
Insert(table, k, v) == [q \in DOMAIN table \cup {k} |-> IF q = k THEN v ELSE table[q]]

NoFrame ==
    [kind |-> "none", src |-> LocalAddr, dst |-> LocalAddr, sport |-> 0, dport |-> 0,
     seq |-> 0, ack |-> 0, syn |-> FALSE, wnd |-> 0, datalen |-> 0]

Frame(p, seq, ack, syn, wnd, datalen) ==
    [kind |-> "tcp", src |-> p[1], dst |-> LocalAddr, sport |-> p[2], dport |-> LocalPort,
     seq |-> seq, ack |-> ack, syn |-> syn, wnd |-> wnd, datalen |-> datalen]

\* connection requests (every window) and segments for a connection (every
\* acknowledgment number and payload length, with or without SYN)
TcpFrames ==
    {Frame(p, s, 0, TRUE, w, 0) : p \in Peers, s \in SeqVals, w \in WndVals}
    \cup UNION {{Frame(p, s, a, y, 0, d) : p \in Peers, s \in SeqVals, a \in AckVals} :
                   y \in BOOLEAN, d \in DataLens}

OtherFrames == {[NoFrame EXCEPT !.kind = k] : k \in {"nontcp", "badip", "badtcp"}}

Init ==
    /\ connections = [q \in {} |-> DefaultConnection]
    /\ origin = [q \in {} |-> from_headers(NoFrame)]
    /\ buf = NoFrame
    /\ pc = "recv"
    /\ outcome = "none"
    /\ nic_sent = 0
    /\ nic_out = NoTx
    /\ overflow_checks \in BOOLEAN
    /\ bw_args = <<0, 0, 0>>
    /\ bw_result = FALSE

\* nic.recv returns the next frame
Recv ==
    /\ pc = "recv"
    /\ \E f \in TcpFrames \cup OtherFrames : buf' = f
    /\ pc' = "dispatch"
    /\ outcome' = "none"
    /\ UNCHANGED <<connections, origin, nic_sent, nic_out, overflow_checks, bw_args, bw_result>>

\* nic.recv fails: `?` returns the error from main
RecvError ==
    /\ pc = "recv"
    /\ pc' = "exited"
    /\ outcome' = "none"
    /\ UNCHANGED <<connections, origin, buf, nic_sent, nic_out, overflow_checks, bw_args, bw_result>>

\* the frame is not IPv4, not TCP, or its TCP header does not parse: continue
Drop ==
    /\ pc = "dispatch"
    /\ buf.kind \in {"nontcp", "badip", "badtcp"}
    /\ pc' = "done"
    /\ outcome' = "dropped"
    /\ UNCHANGED <<connections, origin, buf, nic_sent, nic_out, overflow_checks, bw_args, bw_result>>

\* Entry::Occupied
Occupied ==
    /\ pc = "dispatch"
    /\ buf.kind = "tcp"
    /\ entry(connections, LoopKey(buf)) = "Occupied"
    /\ LET k == LoopKey(buf)
           r == on_packet(connections[k], buf, overflow_checks)
       IN  /\ connections' = [connections EXCEPT ![k] = r.conn]
           /\ outcome' = r.tag
           /\ pc' = IF r.tag = "panic" THEN "panicked" ELSE "done"
    /\ UNCHANGED <<origin, buf, nic_sent, nic_out, overflow_checks, bw_args, bw_result>>

\* Entry::Vacant
Vacant ==
    /\ pc = "dispatch"
    /\ buf.kind = "tcp"
    /\ entry(connections, LoopKey(buf)) = "Vacant"
    /\ LET k == LoopKey(buf)
           r == accept(DefaultConnection, buf, overflow_checks)
       IN  /\ connections' = IF r.tag = "Some" THEN Insert(connections, k, r.conn)
                                               ELSE connections
           /\ origin' = IF r.tag = "Some" THEN Insert(origin, k, from_headers(buf))
                                          ELSE origin
           /\ nic_sent' = nic_sent + r.sends
           /\ \E io \in {"ok", "err"} :
                  nic_out' = IF r.sends > 0 THEN [r.tx EXCEPT !.io = io] ELSE NoTx
           /\ outcome' = CASE r.tag = "Some" -> "accepted"
                           [] r.tag = "None" -> "rejected"
                           [] OTHER -> "panic"
           /\ pc' = IF r.tag = "panic" THEN "panicked" ELSE "done"
    /\ UNCHANGED <<buf, overflow_checks, bw_args, bw_result>>

\* the loop body is over: back to nic.recv, which overwrites the frame; the
\* frame handed to nic.send has left
Loop ==
    /\ pc = "done"
    /\ pc' = "recv"
    /\ buf' = NoFrame
    /\ outcome' = "none"
    /\ nic_out' = NoTx
    /\ UNCHANGED <<connections, origin, nic_sent, overflow_checks, bw_args, bw_result>>

Next == Recv \/ RecvError \/ Drop \/ Occupied \/ Vacant \/ Loop

Spec == Init /\ [][Next]_vars

\* ---------------------------------------------------------------- is_between_wrapped alone
InitBetween ==
    /\ connections = [q \in {} |-> DefaultConnection]
    /\ origin = [q \in {} |-> from_headers(NoFrame)]
    /\ buf = NoFrame
    /\ pc = "between"
    /\ outcome = "none"
    /\ nic_sent = 0
    /\ nic_out = NoTx
    /\ overflow_checks = FALSE
    /\ bw_args \in BwVals \X BwVals \X BwVals
    /\ bw_result = FALSE

CallBetween ==
    /\ pc = "between"
    /\ pc' = "called"
    /\ bw_result' = is_between_wrapped(bw_args[1], bw_args[2], bw_args[3])
    /\ UNCHANGED <<connections, origin, buf, outcome, nic_sent, nic_out, overflow_checks, bw_args>>

NextBetween == CallBetween

SpecBetween == InitBetween /\ [][NextBetween]_vars

\* ---------------------------------------------------------------- properties
\* the step of the loop body that found the frame's key in the table
OccupiedStep ==
    /\ pc = "dispatch"
    /\ buf.kind = "tcp"
    /\ LoopKey(buf) \in DOMAIN connections
    /\ pc' # pc

\* the step of the loop body that found the frame's key absent
VacantStep ==
    /\ pc = "dispatch"
    /\ buf.kind = "tcp"
    /\ LoopKey(buf) \notin DOMAIN connections
    /\ pc' # pc

\* distance forward on the ring from a to b
Fwd(a, b) == (b - a + Mod) % Mod

\* C1: is_between_wrapped(start, x, end) is true iff x # start and the
\* forward distance from start to x is less than that from start to end; it
\* is false when start = end or x = start; on (a, a+d1, a+d2) it is true iff
\* 0 < d1 < d2.
C1_BetweenIsCircular ==
    pc = "called" =>
        LET start == bw_args[1]
            x == bw_args[2]
            end == bw_args[3]
        IN  /\ bw_result <=> (x # start /\ Fwd(start, x) < Fwd(start, end))
            /\ (start = end \/ x = start) => ~bw_result
            /\ \A d1, d2 \in 0..(Mod - 1) :
                   (x = (start + d1) % Mod /\ end = (start + d2) % Mod)
                       => (bw_result <=> (0 < d1 /\ d1 < d2))

\* C1 witness: the test answered true on an interval that crosses the wrap
C1_Witness ==
    /\ pc = "called"
    /\ bw_result
    /\ bw_args[3] < bw_args[1]
    /\ bw_args[2] < bw_args[3]

\* C2: a SYN whose key is absent from the table yields a Connection in
\* SynRcvd with recv.irs = seq, recv.nxt = seq + 1 (mod 2^32) and recv.wnd =
\* the segment's window, for every seq, the largest included.
C2_AcceptInitialisesRecv ==
    [][(VacantStep /\ buf.syn) =>
          LET k == LoopKey(buf)
          IN  /\ outcome' = "accepted"
              /\ k \in DOMAIN connections'
              /\ connections'[k].state = "SynRcvd"
              /\ connections'[k].recv.irs = buf.seq
              /\ connections'[k].recv.nxt = (buf.seq + 1) % Mod
              /\ connections'[k].recv.wnd = buf.wnd]_vars

\* C3: a segment without SYN whose key is absent from the table is rejected
\* with no side effect: the table is unchanged and nothing is sent.
C3_NonSynRejected ==
    [][(VacantStep /\ ~buf.syn) =>
          /\ outcome' = "rejected"
          /\ connections' = connections
          /\ nic_sent' = nic_sent]_vars

\* C3 witness: a segment without SYN was rejected while a connection of
\* another key was in the table
C3_Witness ==
    /\ pc = "done"
    /\ outcome = "rejected"
    /\ ~buf.syn
    /\ LoopKey(buf) \notin DOMAIN connections
    /\ DOMAIN connections # {}

\* C4: in SynRcvd, a segment that passes the ACK test and the sequence test
\* moves the Connection to Estab and sets send.una to its ack number.
C4_AckCompletesHandshake ==
    [][(OccupiedStep /\ connections[LoopKey(buf)].state = "SynRcvd"
                     /\ outcome' = "processed") =>
          /\ connections'[LoopKey(buf)].state = "Estab"
          /\ connections'[LoopKey(buf)].send.una = buf.ack]_vars

\* C5: on_packet lets a segment past the ACK test iff send.una < ackn <=
\* send.nxt on the ring; any other segment is discarded there and the
\* Connection's state does not change.
C5_AckTest ==
    [][OccupiedStep =>
          LET c == connections[LoopKey(buf)]
              d == Fwd(c.send.una, buf.ack)
          IN  /\ (outcome' # "ack_discard") <=> (0 < d /\ d <= Fwd(c.send.una, c.send.nxt))
              /\ outcome' = "ack_discard" =>
                     connections'[LoopKey(buf)].state = c.state]_vars

\* C5 witness: a duplicate ACK, ackn = send.iss = send.una, was discarded by
\* the ACK test
C5_Witness ==
    /\ pc = "done"
    /\ outcome = "ack_discard"
    /\ LoopKey(buf) \in DOMAIN connections
    /\ buf.ack = connections[LoopKey(buf)].send.iss
    /\ buf.ack = connections[LoopKey(buf)].send.una

\* the last byte of the frame's segment, seqn + datalen - 1 on the ring
LastByte(f) == (f.seq + f.datalen + Mod - 1) % Mod

\* s lies in [recv.nxt, recv.nxt + recv.wnd) on the ring
InHalfOpen(c, s) == Fwd(c.recv.nxt, s) < c.recv.wnd

\* s lies in (recv.nxt - 1, recv.nxt + recv.wnd] on the ring
InClosed(c, s) == Fwd(c.recv.nxt, s) <= c.recv.wnd

\* C6, as stated: a segment past the ACK test is accepted by the sequence
\* test iff its first or its last byte lies in (recv.nxt - 1, recv.nxt +
\* recv.wnd], closed at recv.nxt + recv.wnd.
C6_SeqTestClosed ==
    [][(OccupiedStep /\ outcome' \in {"processed", "seq_discard"}) =>
          LET c == connections[LoopKey(buf)]
          IN  (outcome' = "processed")
                  <=> (InClosed(c, buf.seq) \/ InClosed(c, LastByte(buf)))]_vars

\* C6, amended: a segment past the ACK test gets past the sequence test only
\* if its first or its last byte lies in [recv.nxt, recv.nxt + recv.wnd), and
\* is discarded by it only if neither does; the interval is open at
\* recv.nxt + recv.wnd.
C6_SeqTestHalfOpen ==
    [][OccupiedStep =>
          LET c == connections[LoopKey(buf)]
              in == InHalfOpen(c, buf.seq) \/ InHalfOpen(c, LastByte(buf))
          IN  /\ outcome' = "processed" => in
              /\ outcome' = "seq_discard" => ~in]_vars

\* C6 witness: a segment whose first byte is recv.nxt + recv.wnd, and whose
\* last byte is further on, was discarded by the sequence test
C6_Witness ==
    /\ pc = "done"
    /\ outcome = "seq_discard"
    /\ LoopKey(buf) \in DOMAIN connections
    /\ LET c == connections[LoopKey(buf)]
       IN  /\ c.recv.wnd > 0
           /\ buf.datalen > 0
           /\ buf.seq = (c.recv.nxt + c.recv.wnd) % Mod

\* C7: for payload length 0 the sequence test accepts the segment iff seqn
\* itself is in the window: the last-byte test uses seqn, never seqn - 1.
C7_ZeroLengthAsOne ==
    [][(OccupiedStep /\ buf.datalen = 0 /\ outcome' \in {"processed", "seq_discard"}) =>
          ((outcome' = "processed")
              <=> inside_window(connections[LoopKey(buf)], buf.seq))]_vars

\* C8: when on_packet discards a segment, at the ACK test or at the sequence
\* test, the Connection (state, send space, recv space) and the rest of the
\* table are left as they were.
C8_DiscardChangesNothing ==
    [][(OccupiedStep /\ outcome' \in {"ack_discard", "seq_discard"}) =>
          connections' = connections]_vars

\* C8 witness: a segment that starts and ends beyond the receive window was
\* discarded by the sequence test
C8_Witness ==
    /\ pc = "done"
    /\ outcome = "seq_discard"
    /\ LoopKey(buf) \in DOMAIN connections
    /\ LET c == connections[LoopKey(buf)]
       IN  /\ Fwd(c.recv.nxt, buf.seq) > c.recv.wnd
           /\ Fwd(c.recv.nxt, LastByte(buf)) > c.recv.wnd

\* C9: SYN segments of distinct remote peers are keyed under distinct Quads:
\* a SYN is routed to an existing entry only if the entry was created by a
\* frame of the same remote address and port.
C9_DistinctPeersDistinctEntries ==
    (/\ pc = "done"
     /\ buf.kind = "tcp"
     /\ buf.syn
     /\ outcome \in {"ack_discard", "seq_discard", "processed"})
        => from_headers(buf) = origin[LoopKey(buf)]

\* C10: lookup and insert are one step; a SYN for a key already in the table
\* goes to on_packet, adds no entry, does not replace the Connection and
\* sends no SYN+ACK.
C10_DuplicateSynKeepsEntry ==
    [][(OccupiedStep /\ buf.syn) =>
          /\ outcome' \in {"ack_discard", "seq_discard", "processed", "panic"}
          /\ DOMAIN connections' = DOMAIN connections
          /\ connections'[LoopKey(buf)] = connections[LoopKey(buf)]
          /\ nic_sent' = nic_sent]_vars

\* C10 witness: a SYN repeating the one that created the entry, with another
\* window, went through on_packet
C10_Witness ==
    /\ pc = "done"
    /\ buf.kind = "tcp"
    /\ buf.syn
    /\ outcome \in {"ack_discard", "seq_discard", "processed"}
    /\ buf.seq = connections[LoopKey(buf)].recv.irs
    /\ buf.wnd # connections[LoopKey(buf)].recv.wnd
    /\ from_headers(buf) = origin[LoopKey(buf)]

\* C11: no inbound segment aborts processing: accept and on_packet never
\* panic, whatever the Connection and the segment's seq, ack, flags, window
\* and payload length.
C11_NeverPanics == pc # "panicked"

\* C12: the SYN+ACK a successful accept emits carries sequence number =
\* send.iss, acknowledgment number = recv.nxt and window = send.wnd of the new
\* Connection, with SYN and ACK set.
C12_SynAckFields ==
    (pc = "done" /\ outcome = "accepted") =>
        LET c == connections[LoopKey(buf)]
        IN  /\ nic_out.kind = "frame"
            /\ nic_out.seq = c.send.iss
            /\ nic_out.ack = c.recv.nxt
            /\ nic_out.wnd = c.send.wnd
            /\ nic_out.syn
            /\ nic_out.ackf

\* C12 witness: a SYN was accepted and the SYN+ACK acknowledges seq + 1, which
\* is not the peer's seq
C12_Witness ==
    /\ pc = "done"
    /\ outcome = "accepted"
    /\ nic_out.kind = "frame"
    /\ nic_out.ack = (buf.seq + 1) % Mod
    /\ nic_out.ack # connections[LoopKey(buf)].recv.irs

\* C13: every Connection accept returns has send.una = send.iss and
\* send.nxt = send.iss + 1 (mod 2^32).
C13_SendSpaceInitialised ==
    [][(VacantStep /\ outcome' = "accepted") =>
          LET c == connections'[LoopKey(buf)]
          IN  /\ c.send.una = c.send.iss
              /\ c.send.nxt = (c.send.iss + 1) % Mod]_vars

\* C13 witness: a Connection was just accepted
C13_Witness ==
    /\ pc = "done"
    /\ outcome = "accepted"
    /\ LoopKey(buf) \in DOMAIN connections
    /\ connections[LoopKey(buf)].send.nxt = 1

\* C14: a successful accept hands exactly one frame to the packet output and
\* nothing else does (a rejected accept and on_packet send none), so the
\* number of frames sent equals the number of Connections in the table.
C14_OneFramePerConnection ==
    [][/\ nic_sent' = nic_sent + (IF VacantStep /\ outcome' = "accepted" THEN 1 ELSE 0)
       /\ nic_sent' = Cardinality(DOMAIN connections')]_vars

\* C14 witness: two Connections were accepted and a later segment went
\* through on_packet
C14_Witness ==
    /\ pc = "done"
    /\ outcome = "processed"
    /\ nic_sent = 2
    /\ Cardinality(DOMAIN connections) = 2

\* C15: if the packet output fails while accept sends the SYN+ACK, accept
\* does not return a new Connection and none is inserted.
C15_SendFailureReported ==
    (nic_out.kind = "frame" /\ nic_out.io = "err") =>
        /\ outcome # "accepted"
        /\ LoopKey(buf) \notin DOMAIN connections

\* C16: the frame accept hands to the packet output is the IPv4 header
\* followed by the TCP header and nothing more: its length is the number of
\* bytes written.
C16_FrameIsTheTwoHeaders ==
    nic_out.kind = "frame" => nic_out.len = Ipv4HeaderLen + TcpHeaderLen

\* C17: the receive-window test is wraparound-safe: for a segment past the
\* ACK test, the first byte seqn and the last byte seqn + datalen - 1, taken
\* mod 2^32, are each judged inside the window iff (s - recv.nxt) mod 2^32 <
\* recv.wnd, also when the window or the segment crosses the wrap; the
\* segment is accepted iff one of them is inside.
C17_WindowTestWraps ==
    [][(OccupiedStep /\ outcome' # "ack_discard") =>
          LET c == connections[LoopKey(buf)]
          IN  outcome' = IF InHalfOpen(c, buf.seq) \/ InHalfOpen(c, LastByte(buf))
                         THEN "processed"
                         ELSE "seq_discard"]_vars

C20_ZeroWindowRejectsAll ==
    [][(OccupiedStep /\ connections[LoopKey(buf)].recv.wnd = 0) =>
          /\ outcome' # "processed"
          /\ \A s \in 0..(Mod - 1) : ~inside_window(connections[LoopKey(buf)], s)]_vars

\* C20 witness: a zero-length ACK with seqn = recv.nxt was discarded by the
\* sequence test of a Connection whose recv.wnd is 0
C20_Witness ==
    /\ pc = "done"
    /\ outcome = "seq_discard"
    /\ LoopKey(buf) \in DOMAIN connections
    /\ connections[LoopKey(buf)].recv.wnd = 0
    /\ buf.datalen = 0
    /\ ~buf.syn
    /\ buf.seq = connections[LoopKey(buf)].recv.nxt

====
